---- MODULE Spec2Model ----
(***************************************************************************)
(* Guest-services request tracker: the four Express route handlers over    *)
(* the Mongoose "Request" collection, in the two variants of the           *)
(* repository, src/src/index.ts ("index") and src/server.ts ("server").    *)
(*                                                                         *)
(* A step of the model is one HTTP request handled from start to end, or   *)
(* the store connection going down or coming back.  `req` and `resp` hold  *)
(* the request handled last and what became of it, so that a transition    *)
(* relates the store before and after that request.                        *)
(***************************************************************************)
EXTENDS Integers, Sequences, FiniteSets, TLC

VARIABLES
    variant,    \* which of the two server files is running
    store,      \* the Request collection: _id -> stored document
    nextId,     \* the next ObjectId the store will assign
    now,        \* Date.now(), a logical clock that ticks with every request
    connected,  \* whether the MongoDB connection is usable
    req,        \* the request handled last
    resp        \* the response to it

vars == <<variant, store, nextId, now, connected, req, resp>>

\* At most this many requests are handled in a run.
MaxRequests == 3

Variants == {"index", "server"}

----------------------------------------------------------------------------
(* Values.  A body is a function from the keys it carries to their values; *)
(* Absent is JavaScript's undefined, Null its null, "" the empty string.   *)

Absent == "<undefined>"
Null == "<null>"

\* A path id that ObjectId.isValid rejects; well-formed ids are 1, 2, ...
BadId == 0

Required == {"floor", "room", "block", "guestName", "phoneNumber", "service", "department"}

StatusEnum == {"PENDING", "IN_PROGRESS", "COMPLETED"}

PriorityEnum == {"HIGH", "MEDIUM", "LOW"}

\* The paths of requestSchema.
SchemaPaths == Required \cup {"status", "priority", "createdOn", "file"}

allowedUpdates == Required \cup {"priority", "status", "file"}

\* body[k], undefined when the body has no such key
Get(body, k) == IF k \in DOMAIN body THEN body[k] ELSE Absent

\* JavaScript truthiness of the values used here
Truthy(v) == v \notin {Absent, Null, ""}

----------------------------------------------------------------------------
(* The store layer: what Mongoose does with requestSchema.                 *)

\* A required validator that only asks for a value, not for a non-empty one.
checkRequiredAnyString(v) == v \notin {Absent, Null}

\* The `required: true` validator of a String path: a non-empty string.
checkRequired(v) == v \notin {Absent, Null, ""}

\* The `enum` validator of a String path: undefined and null pass, any
\* other value must be a member.
enumValidator(v, members) == v \in {Absent, Null} \/ v \in members

\* The schema default of a path, applied when the value is undefined.
Default(k, t) ==
    CASE k = "status" -> "PENDING"
      [] k = "priority" -> "MEDIUM"
      [] k = "createdOn" -> t
      [] OTHER -> Absent

\* new Request(obj): the schema's paths only (strict), defaults for the
\* undefined ones; an explicit null is kept.  (A createdOn key, when the
\* object has one, holds a date.)
NewDocument(obj, t) ==
    [k \in SchemaPaths |->
        IF k \in DOMAIN obj /\ (k = "createdOn" \/ obj[k] # Absent)
        THEN obj[k]
        ELSE Default(k, t)]

\* Document validation, run by save().
ValidateDocument(d) ==
    /\ \A k \in Required : checkRequired(d[k])
    /\ enumValidator(d["status"], StatusEnum)
    /\ enumValidator(d["priority"], PriorityEnum)

\* save() throws on a validation error or a lost connection.
SaveThrows(d) == ~ValidateDocument(d) \/ ~connected

\* Update validators (runValidators: true), on the paths the update sets
\* or unsets: a required path cannot be unset.
ValidateUpdate(upd) ==
    /\ \A k \in Required \cap DOMAIN upd : checkRequired(upd[k])
    /\ Get(upd, "$unset") \notin Required \cup {"createdOn"}
    /\ enumValidator(Get(upd, "status"), StatusEnum)
    /\ enumValidator(Get(upd, "priority"), PriorityEnum)

\* findByIdAndUpdate throws on a malformed id, a validation error, a lost
\* connection, or an update that would change the _id of the matched document.
UpdateThrows(id, upd) ==
    \/ id = BadId
    \/ ~ValidateUpdate(upd)
    \/ ~connected
    \/ (id \in DOMAIN store /\ "_id" \in DOMAIN upd /\ upd["_id"] # id)

\* The document after the update: its top-level schema paths are $set
\* (strict drops the other keys), the path under the $unset operator is removed.
ApplyUpdate(d, upd) ==
    [k \in SchemaPaths |->
        IF k \in DOMAIN upd THEN upd[k]
        ELSE IF Get(upd, "$unset") = k THEN Absent
        ELSE d[k]]

\* findByIdAndDelete throws on a malformed id or a lost connection.
DeleteThrows(id) == id = BadId \/ ~connected

\* The JSON of a stored document: undefined paths are left out (createdOn,
\* a Date that always has a value, is never undefined).
ToJSON(d) ==
    [k \in {p \in SchemaPaths : p = "createdOn" \/ d[p] # Absent} |-> d[k]]

\* RequestModel.find(): every stored document.
FindAll == [i \in DOMAIN store |-> ToJSON(store[i])]

NoList == [i \in {} |-> Absent]

----------------------------------------------------------------------------
(* How a handler answers.  res.status(c).json(..) sends when nothing was   *)
(* sent yet and throws otherwise.  `pre` are the sends the handler tries   *)
(* before its try block, `tryCodes` the ones inside it after the store     *)
(* call, `threw` whether the store call threw.  A throw before the try     *)
(* block leaves the handler at once; a throw inside it enters the catch    *)
(* block, which tries to send 500 and throws again if something was sent.  *)

StoreCallRuns(pre) == Len(pre) < 2

Respond(pre, threw, tryCodes) ==
    IF ~StoreCallRuns(pre)
    THEN [status |-> pre[1], escaped |-> TRUE]
    ELSE LET attempts == pre \o (IF threw THEN <<>> ELSE tryCodes)
             caught == threw \/ Len(attempts) >= 2
         IN  [status |-> IF attempts # <<>> THEN attempts[1] ELSE 500,
              escaped |-> caught /\ attempts # <<>>]

----------------------------------------------------------------------------
(* POST /api/requests                                                      *)

\* The file reference stored for an upload: req.file.path in index.ts,
\* req.file.filename in server.ts.
FilePath == "uploads/<Date.now()>-<originalname>"
FileName == "<Date.now()>-<originalname>"

\* !floor || !room || ... : some required field is missing or empty.
MissingRequired(body) == \E k \in Required : ~Truthy(Get(body, k))

\* The object handed to the model constructor.
PostObject(body, upload) ==
    IF variant = "index"
    THEN [k \in DOMAIN body \cup {"file"} |->
            IF k = "file" THEN (IF upload THEN FilePath ELSE Null) ELSE body[k]]
    ELSE [k \in SchemaPaths |->
            CASE k \in Required -> Get(body, k)
              [] k = "priority" ->
                    IF Truthy(Get(body, "priority")) THEN body["priority"] ELSE "MEDIUM"
              [] k = "status" -> "PENDING"
              [] k = "file" -> IF upload THEN FileName ELSE Absent
              [] k = "createdOn" -> now]

PostPre(body) == IF MissingRequired(body) THEN <<400>> ELSE <<>>

PostTryCodes == <<201>>

Post(body, upload) ==
    LET doc == NewDocument(PostObject(body, upload), now)
        pre == PostPre(body)
        threw == SaveThrows(doc)
        saved == StoreCallRuns(pre) /\ ~threw
        r == Respond(pre, threw, PostTryCodes)
    IN  /\ now <= MaxRequests
        /\ now' = now + 1
        /\ req' = [method |-> "POST", id |-> BadId, body |-> body, upload |-> upload]
        /\ store' = IF saved THEN store @@ (nextId :> doc) ELSE store
        /\ nextId' = IF saved THEN nextId + 1 ELSE nextId
        /\ resp' = [status |-> r.status, escaped |-> r.escaped,
                    id |-> IF r.status = 201 THEN nextId ELSE BadId,
                    list |-> NoList]
        /\ UNCHANGED <<variant, connected>>

----------------------------------------------------------------------------
(* GET /api/capture                                                        *)

NoBody == [k \in {} |-> Absent]

Capture ==
    LET threw == ~connected
        r == Respond(<<>>, threw, <<200>>)
    IN  /\ now <= MaxRequests
        /\ now' = now + 1
        /\ req' = [method |-> "GET", id |-> BadId, body |-> NoBody, upload |-> FALSE]
        /\ resp' = [status |-> r.status, escaped |-> r.escaped, id |-> BadId,
                    list |-> IF threw THEN NoList ELSE FindAll]
        /\ UNCHANGED <<variant, store, nextId, connected>>

----------------------------------------------------------------------------
(* PATCH /api/requests/:id                                                 *)

\* actualUpdates.every(field => allowedUpdates.includes(field))
isValidOperation(updatedData) == DOMAIN updatedData \subseteq allowedUpdates

\* updatedData.priority && ![..].includes(updatedData.priority)
InvalidPriority(updatedData) ==
    /\ Truthy(Get(updatedData, "priority"))
    /\ updatedData["priority"] \notin PriorityEnum

\* updatedData.status && ![..].includes(updatedData.status)
InvalidStatus(updatedData) ==
    /\ Truthy(Get(updatedData, "status"))
    /\ updatedData["status"] \notin StatusEnum

\* The sends tried before the try block: index.ts checks the status there,
\* server.ts only after the update.
PatchPre(updatedData) ==
    (IF ~isValidOperation(updatedData) THEN <<400>> ELSE <<>>)
    \o (IF InvalidPriority(updatedData) THEN <<400>> ELSE <<>>)
    \o (IF variant = "index" /\ InvalidStatus(updatedData) THEN <<400>> ELSE <<>>)

\* The sends tried inside the try block once findByIdAndUpdate has returned.
PatchTryCodes(found, updatedData) ==
    (IF ~found THEN <<404>> ELSE <<>>)
    \o (IF variant = "server" /\ InvalidStatus(updatedData) THEN <<400>> ELSE <<>>)
    \o <<200>>

Patch(id, updatedData) ==
    LET pre == PatchPre(updatedData)
        threw == UpdateThrows(id, updatedData)
        found == id \in DOMAIN store
        updated == StoreCallRuns(pre) /\ ~threw /\ found
        r == Respond(pre, threw, PatchTryCodes(found, updatedData))
    IN  /\ now <= MaxRequests
        /\ now' = now + 1
        /\ req' = [method |-> "PATCH", id |-> id, body |-> updatedData, upload |-> FALSE]
        /\ store' = IF updated
                    THEN [store EXCEPT ![id] = ApplyUpdate(store[id], updatedData)]
                    ELSE store
        /\ resp' = [status |-> r.status, escaped |-> r.escaped, id |-> BadId,
                    list |-> NoList]
        /\ UNCHANGED <<variant, nextId, connected>>

----------------------------------------------------------------------------
(* DELETE /api/requests/:id                                                *)

\* !mongoose.Types.ObjectId.isValid(id)
DeletePre(id) == IF id = BadId THEN <<400>> ELSE <<>>

\* A delete handler that answers 200 whether or not a document was found.
DeleteTryCodesAlwaysOk(found) == <<200>>

\* The sends tried inside the try block once findByIdAndDelete has returned.
DeleteTryCodes(found) == IF found THEN <<200>> ELSE <<404, 200>>

Delete(id) ==
    LET pre == DeletePre(id)
        threw == DeleteThrows(id)
        found == id \in DOMAIN store
        deleted == StoreCallRuns(pre) /\ ~threw /\ found
        r == Respond(pre, threw, DeleteTryCodes(found))
    IN  /\ now <= MaxRequests
        /\ now' = now + 1
        /\ req' = [method |-> "DELETE", id |-> id, body |-> NoBody, upload |-> FALSE]
        /\ store' = IF deleted
                    THEN [i \in DOMAIN store \ {id} |-> store[i]]
                    ELSE store
        /\ resp' = [status |-> r.status, escaped |-> r.escaped, id |-> BadId,
                    list |-> NoList]
        /\ UNCHANGED <<variant, nextId, connected>>

----------------------------------------------------------------------------
(* The store connection, opened by mongoose.connect at start-up, can be    *)
(* lost and come back while the server runs.                               *)

Disconnect ==
    /\ connected
    /\ connected' = FALSE
    /\ UNCHANGED <<variant, store, nextId, now, req, resp>>

Reconnect ==
    /\ ~connected
    /\ connected' = TRUE
    /\ UNCHANGED <<variant, store, nextId, now, req, resp>>

----------------------------------------------------------------------------
(* The requests the clients send.                                          *)

\* All seven required fields, filled in.
FullBody == [k \in Required |-> "a"]

\* FullBody without the key k, and with an empty k.
Without(k) == [j \in Required \ {k} |-> "a"]
Blank(k) == [FullBody EXCEPT ![k] = ""]

\* What a create may carry besides the required fields.
PostOptions ==
    {NoBody}
    \cup {("priority" :> p) : p \in {"HIGH", "URGENT", "", Null}}
    \cup {("status" :> "COMPLETED"), ("createdOn" :> 0)}

\* Creates: each required field missing, each empty, and the full body
\* with each option; one create carries a file.
PostRequests ==
    {<<Without(k), FALSE>> : k \in Required}
    \cup {<<Blank(k), FALSE>> : k \in Required}
    \cup {<<FullBody @@ o, FALSE>> : o \in PostOptions}
    \cup {<<FullBody, TRUE>>}

\* Updates: of one allowed field with a good or a bad value, of a key
\* outside the allow-list (a schema path, the _id, an unknown field, an
\* update operator), and of such a key together with an allowed field.
PatchBodies ==
    {NoBody}
    \cup {("floor" :> v) : v \in {"b", ""}}
    \cup {("priority" :> p) : p \in {"HIGH", "URGENT", ""}}
    \cup {("status" :> s) : s \in {"COMPLETED", "DONE", "", Null}}
    \cup {("createdOn" :> 0), ("_id" :> 1), ("unknown" :> "x"), ("$unset" :> "status")}
    \cup {("unknown" :> "x") @@ ("status" :> "COMPLETED"),
          ("unknown" :> "x") @@ ("priority" :> "URGENT")}

\* The malformed id, the ids assigned so far, and the next one (well-formed,
\* matching nothing).
PathIds == {BadId} \cup 1..nextId

----------------------------------------------------------------------------

Init ==
    /\ variant \in Variants
    /\ store = [i \in {} |-> Absent]
    /\ nextId = 1
    /\ now = 1
    /\ connected = TRUE
    /\ req = [method |-> "NONE", id |-> BadId, body |-> NoBody, upload |-> FALSE]
    /\ resp = [status |-> 0, escaped |-> FALSE, id |-> BadId, list |-> NoList]

Next ==
    \/ \E r \in PostRequests : Post(r[1], r[2])
    \/ Capture
    \/ \E id \in PathIds, updatedData \in PatchBodies : Patch(id, updatedData)
    \/ \E id \in PathIds : Delete(id)
    \/ Disconnect
    \/ Reconnect

Spec == Init /\ [][Next]_vars

----------------------------------------------------------------------------
(* Properties.  A step with now' = now + 1 handles the request req' and    *)
(* answers resp'; store is the collection before it, store' after it.      *)

\* C1: a create with a required field missing or empty is answered 400 and
\* leaves the collection as it was.
C1_MissingFieldsRejected ==
    [][(now' = now + 1 /\ req'.method = "POST" /\ MissingRequired(req'.body))
        => (resp'.status = 400 /\ store' = store)]_vars

C1_Witness ==
    /\ req.method = "POST"
    /\ MissingRequired(req.body)
    /\ resp.status = 400

\* C2: a create with all seven required fields (and no invalid priority),
\* the store being reachable, persists exactly one new document, whose
\* status is PENDING whatever the body contains and whose priority is MEDIUM
\* when the body carries none.
C2_CreatePersistsPending ==
    [][(/\ now' = now + 1
        /\ req'.method = "POST"
        /\ ~MissingRequired(req'.body)
        /\ Get(req'.body, "priority") \in {Absent} \cup PriorityEnum
        /\ connected)
        => (/\ DOMAIN store' = DOMAIN store \cup {nextId}
            /\ nextId \notin DOMAIN store
            /\ \A i \in DOMAIN store : store'[i] = store[i]
            /\ store'[nextId]["status"] = "PENDING"
            /\ ("priority" \notin DOMAIN req'.body
                    => store'[nextId]["priority"] = "MEDIUM"))]_vars

\* C3: an update of a stored document that names a field outside the
\* allow-list is answered 400 and leaves the collection as it was.
C3_DisallowedFieldRejected ==
    [][(/\ now' = now + 1
        /\ req'.method = "PATCH"
        /\ req'.id \in DOMAIN store
        /\ ~isValidOperation(req'.body))
        => (resp'.status = 400 /\ store' = store)]_vars

\* C4: with the store reachable, an update of a stored document whose
\* priority or status is a value outside its enum is answered 400 and leaves
\* the collection as it was.
C4_InvalidEnumUpdateRejected ==
    [][(/\ now' = now + 1
        /\ req'.method = "PATCH"
        /\ req'.id \in DOMAIN store
        /\ InvalidPriority(req'.body) \/ InvalidStatus(req'.body)
        /\ connected)
        => (resp'.status = 400 /\ store' = store)]_vars

\* C5: a create with all seven required fields and a priority outside the
\* enum is answered 400.
C5_InvalidEnumCreateIs400 ==
    [][(/\ now' = now + 1
        /\ req'.method = "POST"
        /\ ~MissingRequired(req'.body)
        /\ InvalidPriority(req'.body)
        /\ connected)
        => resp'.status = 400]_vars

\* C6: every stored Request has a status and a priority of its enum.
C6_StoredEnumsValid ==
    \A i \in DOMAIN store :
        /\ store[i]["status"] \in StatusEnum
        /\ store[i]["priority"] \in PriorityEnum

\* C7: no request changes the createdOn of a document that stays stored
\* (a document is known by its id, the key it is stored under).
C7_CreatedOnImmutable ==
    [][\A i \in DOMAIN store \cap DOMAIN store' :
            store'[i]["createdOn"] = store[i]["createdOn"]]_vars

\* C8: with the store reachable, a delete of a well-formed id that matches
\* no document is answered 404 and changes nothing, a delete of a stored id
\* is answered 200 and removes that document only, and a delete of the id
\* whose delete was just answered 200 is answered 404.
C8_DeleteNotFoundIs404 ==
    [][(now' = now + 1 /\ req'.method = "DELETE" /\ req'.id # BadId /\ connected)
        => /\ req'.id \notin DOMAIN store
                => (resp'.status = 404 /\ store' = store)
           /\ req'.id \in DOMAIN store
                => /\ resp'.status = 200
                   /\ store' = [i \in DOMAIN store \ {req'.id} |-> store[i]]
           /\ (req.method = "DELETE" /\ resp.status = 200 /\ req'.id = req.id)
                => resp'.status = 404]_vars

\* The second delete of an id that was assigned and deleted before.
C8_Witness ==
    /\ req.method = "DELETE"
    /\ req.id \in 1..(nextId - 1)
    /\ req.id \notin DOMAIN store
    /\ resp.status = 404

\* C9: the list fetched right after a create answered 201 holds the created
\* record, with the submitted required fields and priority, a file reference
\* exactly when a file was uploaded, and a createdOn.
C9_RoundTrip ==
    [][(/\ req.method = "POST" /\ resp.status = 201
        /\ now' = now + 1 /\ req'.method = "GET" /\ resp'.status = 200)
        => /\ resp.id \in DOMAIN resp'.list
           /\ LET r == resp'.list[resp.id]
              IN  /\ \A k \in Required : k \in DOMAIN r /\ r[k] = req.body[k]
                  /\ Truthy(Get(req.body, "priority"))
                        => ("priority" \in DOMAIN r /\ r["priority"] = req.body["priority"])
                  /\ "createdOn" \in DOMAIN r
                  /\ IF req.upload
                     THEN "file" \in DOMAIN r /\ r["file"] \in {FilePath, FileName}
                     ELSE "file" \notin DOMAIN r]_vars

\* C10: no error leaves a route handler.
C10_NoErrorEscapes == ~resp.escaped

====
